---- MODULE Spec2Model ----
(***************************************************************************)
(* Model of the code-analysis pipeline of DEFRA/ai-sdlc-code-analysis-api. *)
(*                                                                         *)
(* One analysis thread is driven through the LangGraph state graph built   *)
(* by create_code_analysis_graph, with a checkpoint committed after the    *)
(* input and after every node that returns.  Markdown texts are sequences  *)
(* of lines; a line is a record [lvl, txt] where lvl is the number of      *)
(* leading '#' of a heading line (0 for any other line).                   *)
(***************************************************************************)
EXTENDS Integers, Sequences, FiniteSets, TLC

(***************************************************************************)
(* Bounds of the model.                                                    *)
(***************************************************************************)
MaxChunks == 2
MaxRestarts == 1
MaxPatternLen == 3
MaxBranches == 2
MaxRepoFiles == 301
MaxWalkFiles == 3

(***************************************************************************)
(* Values.                                                                 *)
(***************************************************************************)
\* Python None in an Optional[str] field of CodeAnalysisChunk
NULL == "<None>"

\* Python None in an Optional[str] field of ReportSection (texts are line sequences)
NoSection == <<>>

RepoUrl == "https://github.com/example/repo"

Topics == <<"data_model", "interfaces", "business_logic", "dependencies",
            "configuration", "infrastructure", "non_functional">>

TopicSet == {Topics[i] : i \in 1..Len(Topics)}

NodeOrder == <<"code_chunker", "process_code_chunks",
               "generate_data_model_report", "generate_interfaces_report",
               "generate_business_logic_report", "generate_dependencies_report",
               "generate_configuration_report", "generate_infrastructure_report",
               "generate_non_functional_report", "generate_consolidated_report",
               "generate_product_requirements">>

END == "__end__"

(***************************************************************************)
(* Texts.                                                                  *)
(***************************************************************************)
Line(lvl, txt) == [lvl |-> lvl, txt |-> txt]

EmptyLine == Line(0, "")

\* the empty string: "".split("\n") is one empty line
EmptyText == <<EmptyLine>>

Front(s) == SubSeq(s, 1, Len(s) - 1)

\* a + b on strings: the last line of a and the first line of b become one line
StrConcat(a, b) ==
    LET x == a[Len(a)]
        y == b[1]
        joined == IF x = EmptyLine THEN y
                  ELSE IF y = EmptyLine THEN x
                  ELSE Line(x.lvl, x.txt \o y.txt)
    IN Front(a) \o <<joined>> \o Tail(b)

\* "\n\n".join(parts)
RECURSIVE JoinParts(_)
JoinParts(parts) ==
    IF parts = <<>> THEN EmptyText
    ELSE IF Len(parts) = 1 THEN parts[1]
    ELSE StrConcat(StrConcat(parts[1], <<EmptyLine, EmptyLine, EmptyLine>>),
                   JoinParts(Tail(parts)))

\* not text.strip()
IsBlank(text) == \A i \in 1..Len(text) : text[i].lvl = 0 /\ text[i].txt \in {"", " "}

\* truthiness of an Optional[str]
Truthy(v) == v # NULL /\ v # ""

(***************************************************************************)
(* The analysis state (CodeAnalysisState).                                 *)
(***************************************************************************)
ReportSection == [t \in TopicSet |-> NoSection]

CodeAnalysisState(repo_url) ==
    [repo_url |-> repo_url,
     file_structure |-> "",
     languages_used |-> <<>>,
     ingested_repo_chunks |-> <<>>,
     analyzed_code_chunks |-> <<>>,
     report_sections |-> ReportSection,
     consolidated_report |-> EmptyText,
     product_requirements |-> EmptyText]

\* a reducer that appends without looking for duplicates
unique_code_chunks_reducer_append(existing, new) == existing \o new

\* reducer of the analyzed_code_chunks channel
unique_code_chunks_reducer(existing, new) ==
    LET existing_fingerprints ==
            {<<existing[i].business_logic, existing[i].data_model>> : i \in 1..Len(existing)}
        unique_new ==
            SelectSeq(new, LAMBDA c : <<c.business_logic, c.data_model>> \notin existing_fingerprints)
    IN existing \o unique_new

\* the engine writes every field a node returns into its channel: the
\* annotated channel through its reducer, every other channel by overwrite
apply_writes(channels, out) ==
    [out EXCEPT !.analyzed_code_chunks =
        unique_code_chunks_reducer(channels.analyzed_code_chunks, out.analyzed_code_chunks)]

(***************************************************************************)
(* code_chunker: repository analysis and planning.                         *)
(***************************************************************************)
\* what happens to one run of code_chunker.  "config_error": AnalyzerConfig
\* has no anthropic_api_key field, so AnalyzerConfig(repo_path_or_url=...,
\* anthropic_api_key=...) raises TypeError before the try block.  The other
\* outcomes are those of a configuration that is accepted: "no_key" is the
\* missing ANTHROPIC_API_KEY, the rest is what the environment does to
\* analyze_repository.
ChunkerOutcomes == {"ok", "no_key", "config_error", "clone_failed", "llm_failed",
                    "parse_failed"}

\* entries the planning LLM may return: a non-dict entry, a dict without
\* chunk_id, a dict with chunk_id "chunk_1"
PlanEntries == {[dict |-> FALSE, chunk_id |-> NULL],
                [dict |-> TRUE, chunk_id |-> NULL],
                [dict |-> TRUE, chunk_id |-> "chunk_1"]}

Plans == UNION {[1..n -> PlanEntries] : n \in 0..MaxChunks}

FileTree == "file structure tree"

Languages == <<"python", "javascript">>

\* process_chunk: [raised, chunk]; chunk_index is the 0-based position in the plan
process_chunk(chunk_data, chunk_index) ==
    IF ~chunk_data.dict
    THEN [raised |-> TRUE, chunk |-> NULL]
    ELSE [raised |-> FALSE,
          chunk |-> [chunk_id |-> IF chunk_data.chunk_id = NULL
                                  THEN "chunk_" \o ToString(chunk_index)
                                  ELSE chunk_data.chunk_id,
                     description |-> "Auto-generated chunk " \o ToString(chunk_index)]]

\* the loop of ChunkManager.chunk_codebase over the entries of the plan;
\* handle_operation turns a raising process_chunk into a dropped entry
RECURSIVE chunk_codebase_from(_, _)
chunk_codebase_from(chunks_data, i) ==
    IF i > Len(chunks_data) THEN <<>>
    ELSE LET r == process_chunk(chunks_data[i], i - 1)
         IN (IF r.raised THEN <<>> ELSE <<r.chunk>>) \o chunk_codebase_from(chunks_data, i + 1)

chunk_codebase(chunks_data) == chunk_codebase_from(chunks_data, 1)

ChunkerErrorText(outcome) ==
    IF outcome = "no_key"
    THEN "Error: ANTHROPIC_API_KEY environment variable is not set"
    ELSE "Error analyzing repository structure: Failed to analyze repository: " \o outcome

\* a code_chunker that swallows the failure without recording it
code_chunker_silent(state, outcome, plan) ==
    IF outcome = "ok"
    THEN [state EXCEPT !.file_structure = FileTree,
                       !.languages_used = Languages,
                       !.ingested_repo_chunks = chunk_codebase(plan)]
    ELSE state

\* the code_chunker node: every failure is caught and turned into an empty result
code_chunker(state, outcome, plan) ==
    IF outcome = "ok"
    THEN [state EXCEPT !.file_structure = FileTree,
                       !.languages_used = Languages,
                       !.ingested_repo_chunks = chunk_codebase(plan)]
    ELSE [state EXCEPT !.file_structure = ChunkerErrorText(outcome),
                       !.languages_used = <<>>,
                       !.ingested_repo_chunks = <<>>]

(***************************************************************************)
(* process_code_chunks and the per-chunk analyzer.                         *)
(***************************************************************************)
AnalysedChunk(id, dm, itf, bl, rest) ==
    [chunk_id |-> id, summary |-> "summary", data_model |-> dm, interfaces |-> itf,
     business_logic |-> bl, dependencies |-> rest, configuration |-> rest,
     infrastructure |-> rest, non_functional |-> rest]

\* structured outputs the analysis LLM may return for a chunk; "?" stands for
\* the chunk_id of the request
AnalysisResponses ==
    {AnalysedChunk("X", NULL, NULL, NULL, NULL),
     AnalysedChunk("?", "entities", "rest api", "rules", "misc"),
     AnalysedChunk("?", "", " ", NULL, "misc")}

LLMResponseFor(chunk, resp) ==
    IF resp.chunk_id = "?" THEN [resp EXCEPT !.chunk_id = chunk.chunk_id] ELSE resp

\* an analyzer that trusts the chunk_id of the response
analyse_code_chunk_unrepaired(code_chunk, llm_response) == llm_response

\* analyse_code_chunk: the record returned by the LLM with its chunk_id repaired
analyse_code_chunk(code_chunk, llm_response) ==
    IF llm_response.chunk_id # code_chunk.chunk_id
    THEN [llm_response EXCEPT !.chunk_id = code_chunk.chunk_id]
    ELSE llm_response

\* a process_code_chunks that drops the chunk whose analysis raised
process_code_chunks_dropping(state, responses, fail_at) ==
    LET chunks == state.ingested_repo_chunks
        results == [i \in 1..Len(chunks) |->
                       analyse_code_chunk(chunks[i], LLMResponseFor(chunks[i], responses[i]))]
        kept == SelectSeq([i \in 1..Len(chunks) |-> [i |-> i, r |-> results[i]]],
                          LAMBDA x : x.i # fail_at)
    IN IF chunks = <<>>
       THEN [raised |-> FALSE, out |-> state, calls |-> 0]
       ELSE [raised |-> FALSE,
             out |-> [state EXCEPT !.analyzed_code_chunks = [j \in 1..Len(kept) |-> kept[j].r]],
             calls |-> Len(chunks)]

\* process_code_chunks: fail_at = 0 when every analysis returns, k > 0 when
\* the analysis of the k-th chunk raises.  [raised, out, calls]
process_code_chunks(state, responses, fail_at) ==
    LET chunks == state.ingested_repo_chunks
        results == [i \in 1..Len(chunks) |->
                       analyse_code_chunk(chunks[i], LLMResponseFor(chunks[i], responses[i]))]
    IN IF chunks = <<>>
       THEN [raised |-> FALSE, out |-> state, calls |-> 0]
       ELSE IF fail_at > 0
       THEN [raised |-> TRUE,
             out |-> [state EXCEPT !.analyzed_code_chunks = SubSeq(results, 1, fail_at - 1)],
             calls |-> fail_at]
       ELSE [raised |-> FALSE,
             out |-> [state EXCEPT !.analyzed_code_chunks = results],
             calls |-> Len(chunks)]

(***************************************************************************)
(* Report aggregators.                                                     *)
(***************************************************************************)
TopicLabel(topic) ==
    CASE topic = "data_model" -> "data model"
      [] topic = "interfaces" -> "interfaces"
      [] topic = "business_logic" -> "business logic"
      [] topic = "dependencies" -> "dependencies"
      [] topic = "configuration" -> "configuration"
      [] topic = "infrastructure" -> "infrastructure"
      [] topic = "non_functional" -> "non-functional"

ReportTitle(topic) ==
    CASE topic = "data_model" -> "Data Model Report"
      [] topic = "interfaces" -> "Interfaces Report"
      [] topic = "business_logic" -> "Business Logic Report"
      [] topic = "dependencies" -> "Dependencies Report"
      [] topic = "configuration" -> "Configuration Report"
      [] topic = "infrastructure" -> "Infrastructure Report"
      [] topic = "non_functional" -> "Non-Functional Report"

\* aggregators that prepend their own "# <title>" line to the report
AddsTitle(topic) == topic \in {"data_model", "dependencies", "non_functional"}

\* aggregators whose call of generate_report stands outside the else branch:
\* with an empty context system_prompt and user_prompt are unbound
CallsLLMUnconditionally(topic) ==
    topic \in {"interfaces", "business_logic", "configuration", "infrastructure"}

NoInformation(topic) ==
    <<Line(0, "No " \o TopicLabel(topic) \o " information found in the analyzed code chunks.")>>

\* the chunks that contribute a fragment "Chunk <id>:\n<fragment>" to the context
Contributors(state, topic) ==
    SelectSeq(state.analyzed_code_chunks, LAMBDA c : Truthy(c[topic]))

\* aggregators whose prompt asks the LLM to title the report
AsksForTitle(topic) ==
    topic \in {"interfaces", "business_logic", "configuration", "infrastructure"}

\* how the LLM treats the title of a report: it titles the report when the
\* prompt asks for it, always, or never
ReportStyles == {"as_asked", "titled", "untitled"}

\* generate_report: the markdown a deterministic LLM returns for a context
generate_report(topic, context, style) ==
    (IF style = "titled" \/ (style = "as_asked" /\ AsksForTitle(topic))
     THEN <<Line(1, ReportTitle(topic))>> ELSE <<>>)
    \o <<Line(0, "intro")>>
    \o [i \in 1..Len(context) |-> Line(2, context[i].chunk_id)]
    \o <<Line(3, "Detail")>>

\* an aggregator that asks the LLM for a report even when no chunk contributes
generate_topic_report_eager(state, topic, llm_fails, style) ==
    LET context == Contributors(state, topic)
        written(report) ==
            [state EXCEPT !.report_sections[topic] =
                IF AddsTitle(topic)
                THEN StrConcat(<<Line(1, ReportTitle(topic)), EmptyLine, EmptyLine>>, report)
                ELSE report]
    IN IF llm_fails
       THEN [raised |-> TRUE, out |-> state, llm_called |-> TRUE]
       ELSE [raised |-> FALSE, out |-> written(generate_report(topic, context, style)),
             llm_called |-> TRUE]

\* an aggregator that builds a fresh ReportSection instead of copying the
\* existing one
generate_topic_report_fresh(state, topic, llm_fails, style) ==
    LET context == Contributors(state, topic)
        blank == context = <<>>
        written(report) ==
            [state EXCEPT !.report_sections =
                [ReportSection EXCEPT ![topic] =
                    IF AddsTitle(topic)
                    THEN StrConcat(<<Line(1, ReportTitle(topic)), EmptyLine, EmptyLine>>, report)
                    ELSE report]]
    IN IF blank /\ CallsLLMUnconditionally(topic)
       THEN [raised |-> TRUE, out |-> state, llm_called |-> FALSE]
       ELSE IF blank
       THEN [raised |-> FALSE, out |-> written(NoInformation(topic)), llm_called |-> FALSE]
       ELSE IF llm_fails
       THEN [raised |-> TRUE, out |-> state, llm_called |-> TRUE]
       ELSE [raised |-> FALSE, out |-> written(generate_report(topic, context, style)),
             llm_called |-> TRUE]

\* generate_<topic>_report: [raised, out, llm_called]
generate_topic_report(state, topic, llm_fails, style) ==
    LET context == Contributors(state, topic)
        blank == context = <<>>
        written(report) ==
            [state EXCEPT !.report_sections[topic] =
                IF AddsTitle(topic)
                THEN StrConcat(<<Line(1, ReportTitle(topic)), EmptyLine, EmptyLine>>, report)
                ELSE report]
    IN IF blank /\ CallsLLMUnconditionally(topic)
       THEN [raised |-> TRUE, out |-> state, llm_called |-> FALSE]
       ELSE IF blank
       THEN [raised |-> FALSE, out |-> written(NoInformation(topic)), llm_called |-> FALSE]
       ELSE IF llm_fails
       THEN [raised |-> TRUE, out |-> state, llm_called |-> TRUE]
       ELSE [raised |-> FALSE, out |-> written(generate_report(topic, context, style)),
             llm_called |-> TRUE]

(***************************************************************************)
(* Consolidator and product requirements.                                  *)
(***************************************************************************)
\* transform_report_section, line by line; count is subheading_count
RECURSIVE transform_lines(_, _, _)
transform_lines(lines, section_number, count) ==
    IF lines = <<>> THEN <<>>
    ELSE LET l == lines[1]
         IN IF l.lvl = 1
            THEN <<Line(2, ToString(section_number) \o ". " \o l.txt)>>
                 \o transform_lines(Tail(lines), section_number, 0)
            ELSE IF l.lvl = 2
            THEN <<Line(3, ToString(section_number) \o "." \o ToString(count + 1)
                           \o ". " \o l.txt)>>
                 \o transform_lines(Tail(lines), section_number, count + 1)
            ELSE IF l.lvl > 2
            THEN <<Line(l.lvl + 1, l.txt)>>
                 \o transform_lines(Tail(lines), section_number, count)
            ELSE <<l>> \o transform_lines(Tail(lines), section_number, count)

transform_report_section(section_content, section_number) ==
    transform_lines(section_content, section_number, 0)

\* ", ".join(items)
RECURSIVE JoinComma(_)
JoinComma(items) ==
    IF items = <<>> THEN ""
    ELSE IF Len(items) = 1 THEN items[1]
    ELSE items[1] \o ", " \o JoinComma(Tail(items))

ReportHeader(state) ==
    <<Line(1, "Code Analysis Report"), EmptyLine,
      Line(2, "Repository Information"),
      Line(0, "- **Repository URL:** " \o state.repo_url),
      Line(0, "- **Languages Used:** " \o JoinComma(state.languages_used)),
      EmptyLine, EmptyLine>>

\* a consolidator that numbers a section by the position of its topic
RECURSIVE transformed_parts_positional(_, _, _)
transformed_parts_positional(report_sections, k, section_index) ==
    IF k > Len(Topics) THEN <<>>
    ELSE IF report_sections[Topics[k]] # NoSection
    THEN <<transform_report_section(report_sections[Topics[k]], k)>>
         \o transformed_parts_positional(report_sections, k + 1, section_index + 1)
    ELSE transformed_parts_positional(report_sections, k + 1, section_index)

\* the populated sections in declaration order of ReportSection
RECURSIVE transformed_parts(_, _, _)
transformed_parts(report_sections, k, section_index) ==
    IF k > Len(Topics) THEN <<>>
    ELSE IF report_sections[Topics[k]] # NoSection
    THEN <<transform_report_section(report_sections[Topics[k]], section_index + 1)>>
         \o transformed_parts(report_sections, k + 1, section_index + 1)
    ELSE transformed_parts(report_sections, k + 1, section_index)

\* a consolidator that leaves the header out
generate_consolidated_report_bare(state) ==
    [state EXCEPT !.consolidated_report =
        JoinParts(transformed_parts(state.report_sections, 1, 0))]

generate_consolidated_report(state) ==
    [state EXCEPT !.consolidated_report =
        StrConcat(ReportHeader(state),
                  JoinParts(transformed_parts(state.report_sections, 1, 0)))]

\* generate_product_requirements: [raised, out, llm_called]
generate_product_requirements(state, llm_fails) ==
    IF IsBlank(state.consolidated_report)
    THEN [raised |-> FALSE, llm_called |-> FALSE,
          out |-> [state EXCEPT !.product_requirements =
              <<Line(0, "No consolidated report available to generate product requirements.")>>]]
    ELSE IF llm_fails
    THEN [raised |-> TRUE, llm_called |-> TRUE, out |-> state]
    ELSE [raised |-> FALSE, llm_called |-> TRUE,
          out |-> [state EXCEPT !.product_requirements =
              <<Line(1, "Product Requirements Document"), EmptyLine,
                [lvl |-> 0, txt |-> "requirements derived from",
                 report |-> state.consolidated_report]>>]]

(***************************************************************************)
(* The workflow graph and the engine.                                      *)
(***************************************************************************)
START == "__start__"

\* the graph with the edges of the first two aggregators exchanged
create_code_analysis_graph_swapped ==
    [n \in {START} \cup {NodeOrder[i] : i \in 1..Len(NodeOrder)} |->
        CASE n = START -> "code_chunker"
          [] n = "code_chunker" -> "process_code_chunks"
          [] n = "process_code_chunks" -> "generate_interfaces_report"
          [] n = "generate_interfaces_report" -> "generate_data_model_report"
          [] n = "generate_data_model_report" -> "generate_business_logic_report"
          [] n = "generate_business_logic_report" -> "generate_dependencies_report"
          [] n = "generate_dependencies_report" -> "generate_configuration_report"
          [] n = "generate_configuration_report" -> "generate_infrastructure_report"
          [] n = "generate_infrastructure_report" -> "generate_non_functional_report"
          [] n = "generate_non_functional_report" -> "generate_consolidated_report"
          [] n = "generate_consolidated_report" -> "generate_product_requirements"
          [] n = "generate_product_requirements" -> END]

\* the edges added by create_code_analysis_graph
create_code_analysis_graph ==
    [n \in {START} \cup {NodeOrder[i] : i \in 1..Len(NodeOrder)} |->
        CASE n = START -> "code_chunker"
          [] n = "code_chunker" -> "process_code_chunks"
          [] n = "process_code_chunks" -> "generate_data_model_report"
          [] n = "generate_data_model_report" -> "generate_interfaces_report"
          [] n = "generate_interfaces_report" -> "generate_business_logic_report"
          [] n = "generate_business_logic_report" -> "generate_dependencies_report"
          [] n = "generate_dependencies_report" -> "generate_configuration_report"
          [] n = "generate_configuration_report" -> "generate_infrastructure_report"
          [] n = "generate_infrastructure_report" -> "generate_non_functional_report"
          [] n = "generate_non_functional_report" -> "generate_consolidated_report"
          [] n = "generate_consolidated_report" -> "generate_product_requirements"
          [] n = "generate_product_requirements" -> END]

\* the topic written by an aggregator node
TopicOf(n) ==
    CASE n = "generate_data_model_report" -> "data_model"
      [] n = "generate_interfaces_report" -> "interfaces"
      [] n = "generate_business_logic_report" -> "business_logic"
      [] n = "generate_dependencies_report" -> "dependencies"
      [] n = "generate_configuration_report" -> "configuration"
      [] n = "generate_infrastructure_report" -> "infrastructure"
      [] n = "generate_non_functional_report" -> "non_functional"

AggregatorNodes == {NodeOrder[i] : i \in 3..9}

VARIABLES
    mock,           \* the deterministic environment of the thread: outcome of the
                    \* repository analysis, planning response, analysis responses
    status,         \* "idle", "running", "failed", "crashed", "done"
    next,           \* the node the engine runs next
    checkpoints,    \* the checkpoints committed for the thread, oldest first
    executed,       \* the nodes whose function ran in the current invocation
    analyzerCalls,  \* per-chunk analyzer invocations of the current invocation
    failedNode,     \* the node that raised, "" when none
    lastGood,       \* the state returned by the last step that completed
    crashKind,      \* "none", "kill" or "before_commit"
    restarts,       \* invocations of the agent after the first one
    resumedFrom,    \* the node that was pending when the process died
    llmCalled,      \* the nodes that issued an LLM call in the current invocation
    worker,         \* analyze_repository in the thread pool: "idle", "running",
                    \* "finished", or "finished_late" when it ended after the timeout
    call,           \* a function of the analyzer called on its own: name and arguments
    result          \* what that call returned or raised

vars == <<mock, status, next, checkpoints, executed, analyzerCalls, failedNode,
          lastGood, crashKind, restarts, resumedFrom, llmCalled, worker, call, result>>

\* no function is called on its own
NoCall == [fn |-> "none"]

\* the channel values of the latest checkpoint
Channels == checkpoints[Len(checkpoints)].state

Mocks ==
    {[outcome |-> o, plan |-> p, responses |-> r, style |-> "as_asked"] :
        o \in ChunkerOutcomes \ {"ok"}, p \in {<<>>}, r \in {<<>>}}
    \cup
    UNION {{[outcome |-> "ok", plan |-> p, responses |-> r, style |-> y] :
                r \in [1..Len(chunk_codebase(p)) -> AnalysisResponses],
                y \in ReportStyles} : p \in Plans}

Init ==
    /\ mock \in Mocks
    /\ status = "idle"
    /\ next = START
    /\ checkpoints = <<>>
    /\ executed = <<>>
    /\ analyzerCalls = 0
    /\ failedNode = ""
    /\ lastGood = CodeAnalysisState(RepoUrl)
    /\ crashKind = "none"
    /\ restarts = 0
    /\ resumedFrom = ""
    /\ llmCalled = {}
    /\ worker = "idle"
    /\ call = NoCall
    /\ result = NoCall

\* the possible results of running the function of node n on a state:
\* records [raised, out, calls]
NodeResults(n, state) ==
    CASE n = "code_chunker" ->
            {[raised |-> mock.outcome = "config_error",
              out |-> code_chunker(state, mock.outcome, mock.plan),
              calls |-> 0, llm |-> mock.outcome \in {"ok", "llm_failed", "parse_failed"}]}
      [] n = "process_code_chunks" ->
            {[raised |-> r.raised, out |-> r.out, calls |-> r.calls, llm |-> r.calls > 0] :
                r \in {process_code_chunks(state, mock.responses, k) :
                          k \in 0..Len(state.ingested_repo_chunks)}}
      [] n \in AggregatorNodes ->
            {[raised |-> r.raised, out |-> r.out, calls |-> 0, llm |-> r.llm_called] :
                r \in {generate_topic_report(state, TopicOf(n), f, mock.style) : f \in BOOLEAN}}
      [] n = "generate_consolidated_report" ->
            {[raised |-> FALSE, out |-> generate_consolidated_report(state), calls |-> 0,
              llm |-> FALSE]}
      [] n = "generate_product_requirements" ->
            {[raised |-> r.raised, out |-> r.out, calls |-> 0, llm |-> r.llm_called] :
                r \in {generate_product_requirements(state, f) : f \in BOOLEAN}}

\* an engine that commits the writes of a node even when it raised
checkpoints_after_leaky(cps, n, r) ==
    Append(cps, [step |-> n, state |-> apply_writes(cps[Len(cps)].state, r.out)])

\* the checkpoints after a step of node n with result r: a node that returns
\* commits its writes, a node that raises commits nothing
checkpoints_after(cps, n, r) ==
    IF r.raised THEN cps
    ELSE Append(cps, [step |-> n, state |-> apply_writes(cps[Len(cps)].state, r.out)])

\* create_code_analysis_agent up to the first superstep: the input is
\* written into the channels and committed
create_code_analysis_agent(cps) ==
    LET channels == IF cps = <<>> THEN CodeAnalysisState(RepoUrl) ELSE cps[Len(cps)].state
    IN Append(cps, [step |-> "input",
                    state |-> apply_writes(channels, CodeAnalysisState(RepoUrl))])

\* trigger_code_analysis: a fresh thread runs the agent
Trigger ==
    /\ status = "idle"
    /\ checkpoints' = create_code_analysis_agent(checkpoints)
    /\ lastGood' = checkpoints'[Len(checkpoints')].state
    /\ status' = "running"
    /\ next' = create_code_analysis_graph[START]
    /\ UNCHANGED <<call, result, mock, executed, analyzerCalls, failedNode, crashKind, restarts,
                   resumedFrom, llmCalled, worker>>

\* one superstep of the engine: the function of node n runs, then its
\* writes are committed or its exception ends the invocation
RunNode(n) ==
    /\ status = "running"
    /\ next = n
    /\ \E r \in NodeResults(n, Channels) :
        /\ executed' = Append(executed, n)
        /\ analyzerCalls' = analyzerCalls + r.calls
        /\ llmCalled' = IF r.llm THEN llmCalled \cup {n} ELSE llmCalled
        /\ checkpoints' = checkpoints_after(checkpoints, n, r)
        /\ IF r.raised
           THEN /\ status' = "failed"
                /\ failedNode' = n
                /\ UNCHANGED <<next, lastGood>>
           ELSE /\ next' = create_code_analysis_graph[n]
                /\ status' = IF next' = END THEN "done" ELSE "running"
                /\ lastGood' = apply_writes(Channels, r.out)
                /\ UNCHANGED failedNode
    /\ UNCHANGED <<call, result, mock, crashKind, restarts, resumedFrom, worker>>

Run_code_chunker == RunNode("code_chunker")

Run_process_code_chunks == RunNode("process_code_chunks")

Run_generate_topic_report == \E n \in AggregatorNodes : RunNode(n)

Run_generate_consolidated_report == RunNode("generate_consolidated_report")

Run_generate_product_requirements == RunNode("generate_product_requirements")

\* the process dies between two supersteps
Kill ==
    /\ status = "running"
    /\ status' = "crashed"
    /\ crashKind' = "kill"
    /\ UNCHANGED <<call, result, mock, next, checkpoints, executed, analyzerCalls, failedNode,
                   lastGood, restarts, resumedFrom, llmCalled, worker>>

\* the process dies after the function of the pending node returned and
\* before its checkpoint is committed
CrashBeforeCommit ==
    /\ status = "running"
    /\ \E r \in NodeResults(next, Channels) :
        /\ ~r.raised
        /\ executed' = Append(executed, next)
        /\ analyzerCalls' = analyzerCalls + r.calls
        /\ llmCalled' = IF r.llm THEN llmCalled \cup {next} ELSE llmCalled
    /\ status' = "crashed"
    /\ crashKind' = "before_commit"
    /\ UNCHANGED <<call, result, mock, next, checkpoints, failedNode, lastGood, restarts, resumedFrom,
                   worker>>

\* create_code_analysis_agent is run again for the thread_id of a dead run
Restart ==
    /\ status = "crashed"
    /\ restarts < MaxRestarts
    /\ checkpoints' = create_code_analysis_agent(checkpoints)
    /\ lastGood' = checkpoints'[Len(checkpoints')].state
    /\ status' = "running"
    /\ next' = create_code_analysis_graph[START]
    /\ executed' = <<>>
    /\ analyzerCalls' = 0
    /\ llmCalled' = {}
    /\ restarts' = restarts + 1
    /\ resumedFrom' = next
    /\ UNCHANGED <<call, result, mock, failedNode, crashKind, worker>>

Next ==
    \/ Trigger
    \/ Run_code_chunker
    \/ Run_process_code_chunks
    \/ Run_generate_topic_report
    \/ Run_generate_consolidated_report
    \/ Run_generate_product_requirements
    \/ Kill
    \/ CrashBeforeCommit

Spec == Init /\ [][Next]_vars

NextResume == Next \/ Restart

SpecResume == Init /\ [][NextResume]_vars

(***************************************************************************)
(* The invocation under asyncio.wait_for(graph.ainvoke(...), timeout=7200).*)
(* code_chunker hands analyze_repository to the thread pool and awaits it; *)
(* the timeout cancels the invocation where it awaits, and a function that *)
(* already runs in a pool thread cannot be cancelled.                      *)
(***************************************************************************)
\* code_chunker without API key returns, and with a rejected configuration
\* raises, before any work is handed over
ChunkerEndsEarly ==
    /\ mock.outcome \in {"no_key", "config_error"}
    /\ Run_code_chunker

\* code_chunker up to "await run_in_executor(thread_pool, analyze_func)"
SubmitAnalysis ==
    /\ status = "running"
    /\ next = "code_chunker"
    /\ mock.outcome \notin {"no_key", "config_error"}
    /\ worker = "idle"
    /\ status' = "awaiting_worker"
    /\ worker' = "running"
    /\ executed' = Append(executed, "code_chunker")
    /\ UNCHANGED <<call, result, mock, next, checkpoints, analyzerCalls, failedNode, lastGood, crashKind,
                   restarts, resumedFrom, llmCalled>>

\* analyze_repository runs to its end in the pool thread
WorkerFinishes ==
    /\ worker = "running"
    /\ worker' = IF status = "timed_out" THEN "finished_late" ELSE "finished"
    /\ llmCalled' = IF mock.outcome \in {"ok", "llm_failed", "parse_failed"}
                    THEN llmCalled \cup {"code_chunker"} ELSE llmCalled
    /\ UNCHANGED <<call, result, mock, status, next, checkpoints, executed, analyzerCalls, failedNode,
                   lastGood, crashKind, restarts, resumedFrom>>

\* code_chunker after the await: the result is put into the state and committed
ResumeChunker ==
    /\ status = "awaiting_worker"
    /\ worker = "finished"
    /\ LET out == code_chunker(Channels, mock.outcome, mock.plan)
       IN /\ checkpoints' = checkpoints_after(checkpoints, "code_chunker",
                                              [raised |-> FALSE, out |-> out])
          /\ lastGood' = apply_writes(Channels, out)
    /\ next' = create_code_analysis_graph["code_chunker"]
    /\ status' = "running"
    /\ UNCHANGED <<call, result, mock, executed, analyzerCalls, failedNode, crashKind, restarts,
                   resumedFrom, llmCalled, worker>>

\* the timeout expires: the invocation is cancelled where it awaits,
\* asyncio.TimeoutError is caught and logged, the agent returns
Timeout ==
    /\ status \in {"running", "awaiting_worker"}
    /\ status' = "timed_out"
    /\ UNCHANGED <<call, result, mock, next, checkpoints, executed, analyzerCalls, failedNode, lastGood,
                   crashKind, restarts, resumedFrom, llmCalled, worker>>

NextTimeout ==
    \/ Trigger
    \/ ChunkerEndsEarly
    \/ SubmitAnalysis
    \/ WorkerFinishes
    \/ ResumeChunker
    \/ Run_process_code_chunks
    \/ Run_generate_topic_report
    \/ Run_generate_consolidated_report
    \/ Run_generate_product_requirements
    \/ Timeout

SpecTimeout == Init /\ [][NextTimeout]_vars

(***************************************************************************)
(* The consolidator on given report sections (as in                        *)
(* test_consolidated_report.py): the graph is entered at                   *)
(* generate_consolidated_report with sections chosen per topic.            *)
(***************************************************************************)
\* contents of a section: none, a report with one title, a report without
\* title, a report with two titles
SectionTexts ==
    {NoSection,
     <<Line(1, "Title"), Line(0, "text"), Line(2, "A"), Line(3, "a1"), Line(2, "B"),
       Line(4, "deep")>>,
     <<Line(0, "text"), Line(2, "A"), Line(3, "a1")>>,
     <<Line(1, "Title"), Line(2, "A"), Line(1, "Title"), Line(2, "B")>>}

GivenStates ==
    {[CodeAnalysisState(RepoUrl) EXCEPT !.languages_used = l, !.report_sections = rs] :
        l \in {<<>>, Languages}, rs \in [TopicSet -> SectionTexts]}

InitReport ==
    /\ mock = [outcome |-> "ok", plan |-> <<>>, responses |-> <<>>, style |-> "as_asked"]
    /\ \E st \in GivenStates :
          /\ checkpoints = <<[step |-> "given", state |-> st]>>
          /\ lastGood = st
    /\ status = "running"
    /\ next = "generate_consolidated_report"
    /\ executed = <<>>
    /\ analyzerCalls = 0
    /\ failedNode = ""
    /\ crashKind = "none"
    /\ restarts = 0
    /\ resumedFrom = ""
    /\ llmCalled = {}
    /\ worker = "idle"
    /\ call = NoCall
    /\ result = NoCall

NextReport ==
    \/ Run_generate_consolidated_report
    \/ Run_generate_product_requirements

SpecReport == InitReport /\ [][NextReport]_vars

(***************************************************************************)
(* Reading a thread (GET /api/v1/code-analysis/{thread_id}).               *)
(***************************************************************************)
_parse_repo_chunks(ingested_chunks_data) ==
    [i \in 1..Len(ingested_chunks_data) |->
        [chunk_id |-> ingested_chunks_data[i].chunk_id,
         description |-> ingested_chunks_data[i].description]]

_parse_analyzed_chunks(analyzed_chunks_data) ==
    [i \in 1..Len(analyzed_chunks_data) |->
        [f \in DOMAIN analyzed_chunks_data[i] |-> analyzed_chunks_data[i][f]]]

\* get_analysis_state: the CodeAnalysis built from the channel values of the
\* latest checkpoint, or not found
get_analysis_state(cps) ==
    IF cps = <<>>
    THEN [found |-> FALSE]
    ELSE LET state_dict == cps[Len(cps)].state
         IN [found |-> TRUE,
             analysis |->
                [repo_url |-> state_dict.repo_url,
                 file_structure |-> state_dict.file_structure,
                 languages_used |-> state_dict.languages_used,
                 ingested_repo_chunks |-> _parse_repo_chunks(state_dict.ingested_repo_chunks),
                 analyzed_code_chunks |-> _parse_analyzed_chunks(state_dict.analyzed_code_chunks),
                 report_sections |-> [t \in TopicSet |-> state_dict.report_sections[t]],
                 consolidated_report |-> state_dict.consolidated_report,
                 product_requirements |-> state_dict.product_requirements]]

(***************************************************************************)
(* The file system seen by the analyzer.  A path is the sequence of its    *)
(* components from "/"; the repository is acquired at RepoPath.            *)
(***************************************************************************)
RepoPath == <<"repo">>

\* the machine after git clone: the work tree holds a source file, a build
\* directory, a hidden file; /etc/passwd lies outside the repository
ClonedFs ==
    [dirs |-> {<<>>, <<"repo">>, <<"repo", "build">>, <<"etc">>},
     files |-> {<<"repo", "main.py">>, <<"repo", "build", "out.bin">>,
                <<"repo", ".env">>, <<"etc", "passwd">>}]

IsUnder(path, root) ==
    Len(path) > Len(root) /\ SubSeq(path, 1, Len(root)) = root

\* the patterns of DEFAULT_EXCLUDE_PATTERNS that bear on the modelled tree
ExcludePatterns == {"build/", "*.bin"}

\* fnmatch(name, pattern) on the modelled names
fnmatch(name, pattern) ==
    \/ name = pattern
    \/ pattern = "*.bin" /\ name = "out.bin"

\* part.startswith(".") and part not in (".", "..")
StartsWithDot(part) == part \in {".env", ".git", ".cache"}

_is_hidden_path(path_parts) ==
    \E i \in 1..Len(path_parts) : StartsWithDot(path_parts[i])

_matches_directory_pattern(path_parts, pattern) ==
    /\ pattern = "build/"
    /\ \E i \in 1..Len(path_parts) : path_parts[i] = "build"

_matches_file_pattern(path_parts, pattern) ==
    \E i \in 1..Len(path_parts) : fnmatch(path_parts[i], pattern)

\* ExclusionManager.should_exclude on a path without .gitignore in the root
should_exclude(path) ==
    \/ _is_hidden_path(path)
    \/ \E pattern \in ExcludePatterns :
          \/ _matches_directory_pattern(path, pattern)
          \/ _matches_file_pattern(path, pattern)

\* the excluded directories on the way from root down to path, root left out
ExcludedAncestors(path, root) ==
    {k \in (Len(root) + 1)..(Len(path) - 1) : should_exclude(SubSeq(path, 1, k))}

\* clean_directory: os.walk from the top; an excluded file is removed, an
\* excluded directory is removed with all it holds and not walked into; a
\* removal that raises OSError (the paths in unremovable) is logged only
clean_directory(fs, directory_path, unremovable) ==
    LET removed(f) ==
            /\ IsUnder(f, directory_path)
            /\ should_exclude(f)
            /\ LET up == ExcludedAncestors(f, directory_path)
               IN IF up = {} THEN f \notin unremovable
                  ELSE SubSeq(f, 1, CHOOSE k \in up : \A j \in up : k <= j) \notin unremovable
    IN [dirs |-> {d \in fs.dirs : ~removed(d)},
        files |-> {f \in fs.files : ~removed(f)}]

\* RepositoryManager._copy_repository: what is not excluded is copied
_copy_repository(fs, dest) ==
    [dirs |-> {d \in fs.dirs : IsUnder(d, dest) => ~should_exclude(d)},
     files |-> {f \in fs.files : IsUnder(f, dest) => ~should_exclude(f)}]

\* the repository made available at RepoPath: a clone is cleaned, a local
\* path is copied
ensure_local_repository(remote, unremovable) ==
    IF remote THEN clean_directory(ClonedFs, RepoPath, unremovable)
    ELSE _copy_repository(ClonedFs, RepoPath)

\* the components a file pattern returned by the LLM is made of
PatternParts == {"*", "..", "main.py", "build", "out.bin", ".env", "etc", "passwd"}

FilePatterns ==
    {[abs |-> a, parts |-> p] :
        a \in BOOLEAN, p \in UNION {[1..n -> PatternParts] : n \in 1..MaxPatternLen}}

Parent(path) == IF path = <<>> THEN <<>> ELSE SubSeq(path, 1, Len(path) - 1)

\* glob.glob, one component at a time: matched holds [phys, raw] with phys
\* the place in the file system and raw the path as glob spells it
RECURSIVE glob_from(_, _, _)
glob_from(fs, matched, parts) ==
    IF parts = <<>> THEN matched
    ELSE LET c == parts[1]
             step(e) ==
                 IF e.phys \notin fs.dirs THEN {}
                 ELSE IF c = ".."
                 THEN {[phys |-> Parent(e.phys), raw |-> Append(e.raw, "..")]}
                 ELSE IF c = "*"
                 THEN {[phys |-> q, raw |-> Append(e.raw, q[Len(q)])] :
                          q \in {x \in (fs.dirs \cup fs.files) :
                                    /\ x # <<>>
                                    /\ Parent(x) = e.phys
                                    /\ ~StartsWithDot(x[Len(x)])}}
                 ELSE IF Append(e.phys, c) \in (fs.dirs \cup fs.files)
                 THEN {[phys |-> Append(e.phys, c), raw |-> Append(e.raw, c)]}
                 ELSE {}
         IN glob_from(fs, UNION {step(e) : e \in matched}, Tail(parts))

\* os.path.relpath(path, start) on normalised paths
relpath(path, start) ==
    LET common == CHOOSE k \in 0..Len(start) :
                     /\ k <= Len(path)
                     /\ SubSeq(path, 1, k) = SubSeq(start, 1, k)
                     /\ \A j \in (k + 1)..Len(start) :
                           j > Len(path) \/ SubSeq(path, 1, j) # SubSeq(start, 1, j)
    IN [i \in 1..(Len(start) - common) |-> ".."] \o SubSeq(path, common + 1, Len(path))

\* expand_glob_patterns: the files matched by the patterns, a relative
\* pattern being joined to repo_path and its matches made relative again
\* (the order of the list is left out)
expand_glob_patterns(fs, files_list, repo_path) ==
    UNION {LET pattern == files_list[i]
               start == IF pattern.abs THEN <<>> ELSE repo_path
               matched_files ==
                   {e \in glob_from(fs, {[phys |-> start, raw |-> start]}, pattern.parts) :
                       e.phys \in fs.files}
           IN {[abs |-> pattern.abs,
                path |-> IF pattern.abs THEN e.raw ELSE relpath(e.phys, repo_path),
                phys |-> e.phys] : e \in matched_files}
           : i \in 1..Len(files_list)}

\* process_chunk: the files of the CodeChunk built from the "files" of a
\* plan entry
process_chunk_files(fs, files_list, repo_path) ==
    expand_glob_patterns(fs, files_list, repo_path)

\* the files of the acquired repository that are not excluded
RetainedFiles(fs) ==
    {f \in fs.files : IsUnder(f, RepoPath) /\ ~should_exclude(f)}

\* the plans the planning LLM may return for the modelled tree: up to
\* MaxChunks entries, each naming its files by one relative pattern
FilePlans ==
    UNION {[1..n -> {<<f>> : f \in {q \in FilePatterns : ~q.abs /\ Len(q.parts) = 1}}] :
              n \in 0..MaxChunks}

\* ChunkManager.chunk_codebase: the files of the chunks made from the
\* entries of the planning response, one chunk per entry
chunk_codebase_files(fs, chunks_data, repo_path) ==
    [i \in 1..Len(chunks_data) |-> process_chunk_files(fs, chunks_data[i], repo_path)]

(***************************************************************************)
(* Functions of the repository analyzer, called on their own with inputs   *)
(* drawn from small sets.                                                  *)
(***************************************************************************)
pipelineVars == <<mock, status, next, checkpoints, executed, analyzerCalls, failedNode,
                  lastGood, crashKind, restarts, resumedFrom, llmCalled, worker>>

\* what one attempt of an LLM call may end in
AttemptOutcomes == {"ok", "transport_failure", "provider_5xx", "client_4xx"}

\* handle_operation: (result, None) or (None, exception)
handle_operation(outcome) ==
    IF outcome = "ok" THEN [result |-> "ok", error |-> NULL]
    ELSE [result |-> NULL, error |-> outcome]

\* the loop of operation_with_retry from the 0-based attempt on; outcomes[k]
\* is what the k-th call of the operation ends in
\* (a variant that backs off after the last failure as well)
RECURSIVE retry_attempts_always_sleeping(_, _, _)
retry_attempts_always_sleeping(outcomes, max_retries, attempt) ==
    IF attempt >= max_retries
    THEN [raised |-> TRUE, attempts |-> max_retries, sleeps |-> <<>>,
          cause |-> IF max_retries > 0 THEN outcomes[max_retries] ELSE NULL]
    ELSE IF outcomes[attempt + 1] = "ok"
    THEN [raised |-> FALSE, attempts |-> attempt + 1, sleeps |-> <<>>, cause |-> NULL]
    ELSE LET rest == retry_attempts_always_sleeping(outcomes, max_retries, attempt + 1)
         IN [rest EXCEPT !.sleeps = <<2^attempt>> \o @]

\* cause is the exception the final RuntimeError is raised from
RECURSIVE retry_attempts(_, _, _)
retry_attempts(outcomes, max_retries, attempt) ==
    IF attempt >= max_retries
    THEN [raised |-> TRUE, attempts |-> max_retries, sleeps |-> <<>>,
          cause |-> IF max_retries > 0 THEN outcomes[max_retries] ELSE NULL]
    ELSE IF outcomes[attempt + 1] = "ok"
    THEN [raised |-> FALSE, attempts |-> attempt + 1, sleeps |-> <<>>, cause |-> NULL]
    ELSE LET rest == retry_attempts(outcomes, max_retries, attempt + 1)
         IN [rest EXCEPT !.sleeps =
                (IF attempt < max_retries - 1 THEN <<2^attempt>> ELSE <<>>) \o @]

\* operation_with_retry: [raised, attempts, sleeps, cause]; every exception is
\* retried
operation_with_retry(outcomes, max_retries) == retry_attempts(outcomes, max_retries, 0)

\* (a variant that parses the response inside the retried operation)
get_chunks_from_bedrock_parsing_in_loop(outcomes, parses) ==
    operation_with_retry([k \in 1..3 |-> IF outcomes[k] = "ok" /\ ~parses
                                         THEN "parse_error" ELSE outcomes[k]], 3)

\* get_chunks_from_bedrock: make_api_call under operation_with_retry(..., 3),
\* then parse_chunks_from_response on what it returned; parses tells whether
\* the response holds the JSON of a plan
get_chunks_from_bedrock(outcomes, parses) ==
    LET response == operation_with_retry(outcomes, 3)
    IN IF response.raised \/ parses THEN response
       ELSE [response EXCEPT !.raised = TRUE, !.cause = "parse_error"]

\* what the git commands of one clone may end in
CloneOutcomes == {"ok", "nonzero_exit", "timeout"}

\* clone_repository: a local path is returned as it is; a remote URL is
\* cloned by one _clone_operation under handle_operation
clone_repository(remote, outcomes) ==
    IF ~remote
    THEN [raised |-> FALSE, attempts |-> 0, sleeps |-> <<>>]
    ELSE LET r == handle_operation(outcomes[1])
         IN [raised |-> r.error # NULL, attempts |-> 1, sleeps |-> <<>>]

\* Parsed files.  A file path is named by its rank in lexicographic order
\* among all paths, a natural number; code_structure maps the paths of the
\* parsed files to their elements, of which the sizes are kept: the length
\* of the relative path, of the function and class entries, of the comments
Light == [rel_path_len |-> 5, names |-> 0, comments |-> 0]

Medium == [rel_path_len |-> 50, names |-> 400, comments |-> 100]

Heavy == [rel_path_len |-> 10, names |-> 100, comments |-> 179000]

Huge == [rel_path_len |-> 10, names |-> 179980, comments |-> 0]

KeySets ==
    {1..n : n \in {0, 2, MaxRepoFiles - 2, MaxRepoFiles - 1, MaxRepoFiles}} \cup {{2, 5, 9}}

CodeStructures ==
    {[k \in keys |-> IF k = heavy_at THEN heavy ELSE base] :
        keys \in KeySets, heavy_at \in {0, 2, 9, MaxRepoFiles - 1},
        heavy \in {Heavy, Huge}, base \in {Light, Medium}}

\* sorted(code_structure.keys()): the paths between lo and hi in
\* increasing order, the two halves of the range one after the other
RECURSIVE sorted_between(_, _, _)
sorted_between(keys, lo, hi) ==
    IF lo > hi THEN <<>>
    ELSE IF lo = hi THEN (IF lo \in keys THEN <<lo>> ELSE <<>>)
    ELSE LET mid == (lo + hi) \div 2
         IN sorted_between(keys, lo, mid) \o sorted_between(keys, mid + 1, hi)

sorted(keys) == sorted_between(keys, 1, MaxRepoFiles + 9)

\* the estimate of one file in create_simplified_structure
file_tokens(elements, filter_comments) ==
    elements.rel_path_len * 2 + elements.names
        + (IF filter_comments THEN 0 ELSE elements.comments)

max_files == 300

token_limit == 180000

\* (a variant of the loop body that passes over a file that does not fit
\* and goes on with the next)
loop_body_skipping(code_structure, st, file_path, filter_comments) ==
    IF st.stopped THEN st
    ELSE IF st.file_count >= max_files \/ st.estimated_tokens >= token_limit
    THEN [st EXCEPT !.stopped = TRUE]
    ELSE LET tokens == file_tokens(code_structure[file_path], filter_comments)
         IN IF st.estimated_tokens + tokens >= token_limit
            THEN st
            ELSE [st EXCEPT !.included = Append(@, file_path),
                            !.file_count = @ + 1,
                            !.estimated_tokens = @ + tokens]

\* one pass of the loop of create_simplified_structure over file_path;
\* stopped tells that a break has left the loop
loop_body(code_structure, st, file_path, filter_comments) ==
    IF st.stopped THEN st
    ELSE IF st.file_count >= max_files \/ st.estimated_tokens >= token_limit
    THEN [st EXCEPT !.stopped = TRUE]
    ELSE LET tokens == file_tokens(code_structure[file_path], filter_comments)
         IN IF st.estimated_tokens + tokens >= token_limit
            THEN [st EXCEPT !.stopped = TRUE]
            ELSE [st EXCEPT !.included = Append(@, file_path),
                            !.file_count = @ + 1,
                            !.estimated_tokens = @ + tokens]

\* the passes over sorted_files[lo..hi], first half then second half
RECURSIVE run_loop(_, _, _, _, _, _)
run_loop(code_structure, sorted_files, lo, hi, st, filter_comments) ==
    IF lo > hi THEN st
    ELSE IF lo = hi THEN loop_body(code_structure, st, sorted_files[lo], filter_comments)
    ELSE LET mid == (lo + hi) \div 2
             half == run_loop(code_structure, sorted_files, lo, mid, st, filter_comments)
         IN IF half.stopped THEN half
            ELSE run_loop(code_structure, sorted_files, mid + 1, hi, half, filter_comments)

\* create_simplified_structure: the paths put into the simplified
\* structure, in the order they were added, and the file count
create_simplified_structure(code_structure, filter_comments) ==
    LET sorted_files == sorted(DOMAIN code_structure)
    IN run_loop(code_structure, sorted_files, 1, Len(sorted_files),
                [included |-> <<>>, file_count |-> 0, estimated_tokens |-> 0,
                 stopped |-> FALSE], filter_comments)

\* One repository placed at different roots: the paths of its directories
\* and files relative to the root
RepoDirs == {<<>>, <<"build">>}

RepoContents == {<<"main.py">>, <<"build", "out.bin">>, <<".env">>}

\* the places a repository may stand at: the source of a local copy is where
\* the user keeps it, a clone goes into mkdtemp under the temporary
\* directory the environment names
RepoRoots == {<<"repo">>, <<"home", "repo">>, <<"build", "repo">>, <<".cache", "repo">>}

PlacedFs(root) ==
    [dirs |-> {SubSeq(root, 1, k) : k \in 0..Len(root)} \cup {root \o d : d \in RepoDirs},
     files |-> {root \o f : f \in RepoContents}]

\* the relative paths of the files kept when the repository at root is
\* cleaned after a clone or copied from a local path
retained_relative_paths(root, remote) ==
    LET fs == IF remote THEN clean_directory(PlacedFs(root), root, {})
              ELSE _copy_repository(PlacedFs(root), root)
    IN {SubSeq(f, Len(root) + 1, Len(f)) : f \in {g \in fs.files : IsUnder(g, root)}}

\* the files os.walk meets, in the order of the walk; parses tells whether
\* _process_file returns a structure for the file (a supported language, no
\* parser error)
WalkedFiles == UNION {[1..n -> [parses : BOOLEAN]] : n \in 0..MaxWalkFiles}

\* the loop of parse_code_structure from the i-th file of the walk on;
\* code_structure holds the positions of the files that have an entry
RECURSIVE parse_from(_, _, _, _, _)
parse_from(files, i, code_structure, file_count, max_files_to_parse) ==
    IF i > Len(files)
    THEN [code_structure |-> code_structure, processed |-> Len(files)]
    ELSE LET count == IF files[i].parses THEN 1 ELSE 0
             updated == IF files[i].parses THEN code_structure \cup {i} ELSE code_structure
         IN IF file_count + count > max_files_to_parse
            THEN [code_structure |-> updated, processed |-> i]
            ELSE parse_from(files, i + 1, updated, file_count + count, max_files_to_parse)

parse_code_structure(files, max_files_to_parse) ==
    parse_from(files, 1, {}, 0, max_files_to_parse)

\* the lines "git branch -r" may print
BranchLines == {"  origin/HEAD -> origin/dev", "  origin/dev", "  origin/feature/x"}

\* "HEAD" not in branch
ContainsHEAD(line) == line = "  origin/HEAD -> origin/dev"

\* branch.strip() and then remote_branch.split("/", 1)[1]
LocalBranch(line) ==
    CASE line = "  origin/HEAD -> origin/dev" -> "HEAD -> origin/dev"
      [] line = "  origin/dev" -> "dev"
      [] line = "  origin/feature/x" -> "feature/x"

\* what git answers to the commands of _checkout_branch
GitRemotes ==
    [main_ok : BOOLEAN, master_ok : BOOLEAN, list_ok : BOOLEAN, create_ok : BOOLEAN,
     lines : UNION {[1..n -> BranchLines] : n \in 0..MaxBranches}]

GitCmd(cmd, arg) == [cmd |-> cmd, arg |-> arg]

\* _find_alternative_branch: the first listed branch that is not HEAD
RECURSIVE first_branch_from(_, _)
first_branch_from(branches, i) ==
    IF i > Len(branches) THEN NULL
    ELSE IF ~ContainsHEAD(branches[i]) THEN LocalBranch(branches[i])
    ELSE first_branch_from(branches, i + 1)

_find_alternative_branch(git) ==
    [commands |-> <<GitCmd("branch", "-r")>>,
     branch |-> IF git.list_ok /\ git.lines # <<>>
                THEN first_branch_from(git.lines, 1) ELSE NULL]

\* (a variant that tries origin/master before origin/main)
_determine_default_branch_master_first(git) ==
    IF git.master_ok
    THEN [commands |-> <<GitCmd("checkout", "origin/master")>>, branch |-> "master"]
    ELSE IF git.main_ok
    THEN [commands |-> <<GitCmd("checkout", "origin/master"),
                         GitCmd("checkout", "origin/main")>>, branch |-> "main"]
    ELSE LET alt == _find_alternative_branch(git)
         IN [alt EXCEPT !.commands = <<GitCmd("checkout", "origin/master"),
                                       GitCmd("checkout", "origin/main")>> \o @]

_determine_default_branch(git) ==
    IF git.main_ok
    THEN [commands |-> <<GitCmd("checkout", "origin/main")>>, branch |-> "main"]
    ELSE IF git.master_ok
    THEN [commands |-> <<GitCmd("checkout", "origin/main"),
                         GitCmd("checkout", "origin/master")>>, branch |-> "master"]
    ELSE LET alt == _find_alternative_branch(git)
         IN [alt EXCEPT !.commands = <<GitCmd("checkout", "origin/main"),
                                       GitCmd("checkout", "origin/master")>> \o @]

\* _checkout_branch: [commands, branch, raised]
_checkout_branch(git) ==
    LET chosen == _determine_default_branch(git)
    IN IF chosen.branch = NULL
       THEN [commands |-> chosen.commands, branch |-> NULL, raised |-> TRUE]
       ELSE [commands |-> Append(chosen.commands, GitCmd("checkout -b", chosen.branch)),
             branch |-> chosen.branch,
             raised |-> ~git.create_ok]

\* the temporary directory of the RepositoryManager over one run of the
\* code_chunker node: mkdtemp when the analyzer is constructed, rmtree by
\* _cleanup_on_error when the clone fails; RepositoryManager.cleanup is
\* reached only through CodeAnalyzer.__exit__, and the node neither enters
\* the analyzer as a context manager nor calls cleanup
code_chunker_temp_dir(remote, outcome) ==
    IF outcome = "no_key"
    THEN [created |-> FALSE, exists |-> FALSE, raised |-> FALSE]
    ELSE IF outcome = "config_error"
    THEN [created |-> FALSE, exists |-> FALSE, raised |-> TRUE]
    ELSE [created |-> TRUE, exists |-> ~(remote /\ outcome = "clone_failed"),
          raised |-> FALSE]

HardWindow == 200000

SystemPromptTokens == 400

\* count_tokens: system prompt + prompt + 200 of overhead, 0 when the
\* encoder raises
count_tokens(prompt_tokens, encoder_fails) ==
    IF encoder_fails THEN 0 ELSE SystemPromptTokens + prompt_tokens + 200

\* analyze_repository from the first token count to the planning call:
\* with_comments and stripped are the sizes of the two prompts
analyze_repository_token_check(with_comments, stripped, filter_comments_above_tokens, encoder_fails) ==
    LET token_count == count_tokens(with_comments, encoder_fails)
    IN IF token_count > filter_comments_above_tokens /\ filter_comments_above_tokens > 0
       THEN IF count_tokens(stripped, encoder_fails) > HardWindow
            THEN [raised |-> TRUE, llm_called |-> FALSE, filtered |-> TRUE,
                  prompt |-> stripped]
            ELSE [raised |-> FALSE, llm_called |-> TRUE, filtered |-> TRUE,
                  prompt |-> stripped]
       ELSE [raised |-> FALSE, llm_called |-> TRUE, filtered |-> FALSE,
             prompt |-> with_comments]

PromptSizes == {100000, 199400, 199401, 250000}

Thresholds == {0, 150000, 200000, 300000}

Calls ==
    {[fn |-> "get_chunks_from_bedrock", outcomes |-> o, parses |-> p] :
        o \in [1..3 -> AttemptOutcomes], p \in BOOLEAN}
    \cup
    {[fn |-> "clone_repository", remote |-> r, outcomes |-> o] :
        r \in BOOLEAN, o \in [1..3 -> CloneOutcomes]}
    \cup
    {c \in {[fn |-> "analyze_repository", with_comments |-> w, stripped |-> p,
              threshold |-> t, encoder_fails |-> e] :
                w \in PromptSizes, p \in PromptSizes, t \in Thresholds, e \in BOOLEAN} :
        c.stripped <= c.with_comments}
    \cup
    {[fn |-> "process_chunk", remote |-> TRUE, unremovable |-> u, files |-> <<f>>] :
        u \in SUBSET {<<"repo", "build">>, <<"repo", ".env">>}, f \in FilePatterns}
    \cup
    {[fn |-> "process_chunk", remote |-> FALSE, unremovable |-> {}, files |-> <<f>>] :
        f \in FilePatterns}
    \cup
    {c \in {[fn |-> "code_chunker", remote |-> r, outcome |-> o] :
              r \in BOOLEAN, o \in ChunkerOutcomes} :
        c.outcome = "clone_failed" => c.remote}
    \cup
    {[fn |-> "_checkout_branch", git |-> g] : g \in GitRemotes}
    \cup
    {[fn |-> "create_simplified_structure", code_structure |-> c, filter_comments |-> f] :
        c \in CodeStructures, f \in BOOLEAN}
    \cup
    {[fn |-> "parse_code_structure", files |-> f, max_files_to_parse |-> m] :
        f \in WalkedFiles, m \in 1..MaxWalkFiles}
    \cup
    {[fn |-> "retained_relative_paths", root |-> p, remote |-> r] :
        p \in RepoRoots, r \in BOOLEAN}
    \cup
    {[fn |-> "chunk_codebase", remote |-> r, chunks_data |-> d] :
        r \in BOOLEAN, d \in FilePlans}

InitCalls ==
    /\ mock = [outcome |-> "ok", plan |-> <<>>, responses |-> <<>>, style |-> "as_asked"]
    /\ status = "idle"
    /\ next = START
    /\ checkpoints = <<>>
    /\ executed = <<>>
    /\ analyzerCalls = 0
    /\ failedNode = ""
    /\ lastGood = CodeAnalysisState(RepoUrl)
    /\ crashKind = "none"
    /\ restarts = 0
    /\ resumedFrom = ""
    /\ llmCalled = {}
    /\ worker = "idle"
    /\ call \in Calls
    /\ result = NoCall

Do_get_chunks_from_bedrock ==
    /\ call.fn = "get_chunks_from_bedrock"
    /\ result = NoCall
    /\ result' = get_chunks_from_bedrock(call.outcomes, call.parses)
    /\ UNCHANGED <<call, pipelineVars>>

Do_clone_repository ==
    /\ call.fn = "clone_repository"
    /\ result = NoCall
    /\ result' = clone_repository(call.remote, call.outcomes)
    /\ UNCHANGED <<call, pipelineVars>>

Do_analyze_repository ==
    /\ call.fn = "analyze_repository"
    /\ result = NoCall
    /\ result' = analyze_repository_token_check(call.with_comments, call.stripped,
                                                call.threshold, call.encoder_fails)
    /\ UNCHANGED <<call, pipelineVars>>

\* the repository is acquired, then a plan entry is made into a chunk
Do_process_chunk ==
    /\ call.fn = "process_chunk"
    /\ result = NoCall
    /\ result' = [files |-> process_chunk_files(
                                ensure_local_repository(call.remote, call.unremovable),
                                call.files, RepoPath)]
    /\ UNCHANGED <<call, pipelineVars>>

\* the repository is acquired, then the planning response is made into chunks
Do_chunk_codebase ==
    /\ call.fn = "chunk_codebase"
    /\ result = NoCall
    /\ result' = [chunks |-> chunk_codebase_files(ensure_local_repository(call.remote, {}),
                                                  call.chunks_data, RepoPath)]
    /\ UNCHANGED <<call, pipelineVars>>

Do_code_chunker ==
    /\ call.fn = "code_chunker"
    /\ result = NoCall
    /\ result' = code_chunker_temp_dir(call.remote, call.outcome)
    /\ UNCHANGED <<call, pipelineVars>>

Do_checkout_branch ==
    /\ call.fn = "_checkout_branch"
    /\ result = NoCall
    /\ result' = _checkout_branch(call.git)
    /\ UNCHANGED <<call, pipelineVars>>

Do_create_simplified_structure ==
    /\ call.fn = "create_simplified_structure"
    /\ result = NoCall
    /\ result' = create_simplified_structure(call.code_structure, call.filter_comments)
    /\ UNCHANGED <<call, pipelineVars>>

Do_parse_code_structure ==
    /\ call.fn = "parse_code_structure"
    /\ result = NoCall
    /\ result' = parse_code_structure(call.files, call.max_files_to_parse)
    /\ UNCHANGED <<call, pipelineVars>>

Do_retained_relative_paths ==
    /\ call.fn = "retained_relative_paths"
    /\ result = NoCall
    /\ result' = [paths |-> retained_relative_paths(call.root, call.remote)]
    /\ UNCHANGED <<call, pipelineVars>>

NextCalls ==
    \/ Do_process_chunk
    \/ Do_retained_relative_paths
    \/ Do_parse_code_structure
    \/ Do_create_simplified_structure
    \/ Do_checkout_branch
    \/ Do_code_chunker
    \/ Do_chunk_codebase
    \/ Do_get_chunks_from_bedrock
    \/ Do_clone_repository
    \/ Do_analyze_repository

SpecCalls == InitCalls /\ [][NextCalls]_vars

(***************************************************************************)
(* Two analyses in one process: code_chunker hands analyze_repository to   *)
(* the shared thread pool, so two clones run in two threads of the pool.   *)
(* The working directory belongs to the process; git is started without a  *)
(* cwd argument and runs where the process stands.  The state of the two   *)
(* clones is kept in result: pc, the saved original_dir and the git        *)
(* commands run per thread, the process working directory, the existing    *)
(* directories.                                                            *)
(***************************************************************************)
Threads == {"t1", "t2"}

\* the directory the process is started in
AppDir == <<"app">>

\* tempfile.mkdtemp: one fresh directory per RepositoryManager
TempDir(t) == <<"tmp", t>>

GitCommands == <<"init", "remote_add", "fetch", "checkout">>

GitOutcomes == {"ok", "nonzero_exit", "timeout"}

CloneThreads == [fn |-> "clone_threads"]

InitClones ==
    /\ mock = [outcome |-> "ok", plan |-> <<>>, responses |-> <<>>, style |-> "as_asked"]
    /\ status = "idle"
    /\ next = START
    /\ checkpoints = <<>>
    /\ executed = <<>>
    /\ analyzerCalls = 0
    /\ failedNode = ""
    /\ lastGood = CodeAnalysisState(RepoUrl)
    /\ crashKind = "none"
    /\ restarts = 0
    /\ resumedFrom = ""
    /\ llmCalled = {}
    /\ worker = "idle"
    /\ call = CloneThreads
    /\ result = [pc |-> [t \in Threads |-> "which"],
                 cwd |-> AppDir,
                 exists |-> {AppDir} \cup {TempDir(t) : t \in Threads},
                 original_dir |-> [t \in Threads |-> NULL],
                 git |-> [t \in Threads |-> <<>>]]

\* shutil.which("git"): without git RuntimeError is raised before the
\* working directory is touched
FindGit(t) ==
    /\ call = CloneThreads
    /\ result.pc[t] = "which"
    /\ \E found \in BOOLEAN :
          result' = [result EXCEPT !.pc[t] = IF found THEN "getcwd" ELSE "cleanup"]
    /\ UNCHANGED <<call, pipelineVars>>

\* original_dir = os.getcwd(), which raises when the directory is gone
SaveCwd(t) ==
    /\ call = CloneThreads
    /\ result.pc[t] = "getcwd"
    /\ result' = IF result.cwd \in result.exists
                 THEN [result EXCEPT !.pc[t] = "chdir", !.original_dir[t] = result.cwd]
                 ELSE [result EXCEPT !.pc[t] = "cleanup"]
    /\ UNCHANGED <<call, pipelineVars>>

\* os.makedirs(normalized_repo_path, exist_ok=True); os.chdir(...)
EnterRepo(t) ==
    /\ call = CloneThreads
    /\ result.pc[t] = "chdir"
    /\ result' = [result EXCEPT !.pc[t] = "init",
                                 !.exists = @ \cup {TempDir(t)},
                                 !.cwd = TempDir(t)]
    /\ UNCHANGED <<call, pipelineVars>>

\* one of _run_git_init, _add_git_remote, _fetch_from_remote,
\* _checkout_branch: git runs in the working directory of the process; a
\* non-zero exit raises RuntimeError, an expired timeout TimeoutExpired
RunGit(t) ==
    /\ call = CloneThreads
    /\ \E k \in 1..Len(GitCommands), outcome \in GitOutcomes :
          /\ result.pc[t] = GitCommands[k]
          /\ result' = [result EXCEPT
                           !.git[t] = Append(@, [cmd |-> GitCommands[k], dir |-> result.cwd]),
                           !.pc[t] = IF outcome = "nonzero_exit" THEN "cleanup"
                                     ELSE IF outcome = "timeout" THEN "restore_on_timeout"
                                     ELSE IF k < Len(GitCommands) THEN GitCommands[k + 1]
                                     ELSE "restore"]
    /\ UNCHANGED <<call, pipelineVars>>

\* os.chdir(original_dir) at the end of the try block and in the handler
\* of TimeoutExpired, which then raises TimeoutError
RestoreCwd(t) ==
    /\ call = CloneThreads
    /\ result.pc[t] \in {"restore", "restore_on_timeout"}
    /\ result' = IF result.original_dir[t] \in result.exists
                 THEN [result EXCEPT !.cwd = result.original_dir[t],
                                     !.pc[t] = IF result.pc[t] = "restore" THEN "done"
                                               ELSE "cleanup"]
                 ELSE [result EXCEPT !.pc[t] = "cleanup"]
    /\ UNCHANGED <<call, pipelineVars>>

\* _cleanup_on_error on the way out of a failed clone_repository
CleanupOnError(t) ==
    /\ call = CloneThreads
    /\ result.pc[t] = "cleanup"
    /\ result' = [result EXCEPT !.exists = @ \ {TempDir(t)}, !.pc[t] = "failed"]
    /\ UNCHANGED <<call, pipelineVars>>

NextClones ==
    \E t \in Threads :
        \/ FindGit(t)
        \/ SaveCwd(t)
        \/ EnterRepo(t)
        \/ RunGit(t)
        \/ RestoreCwd(t)
        \/ CleanupOnError(t)

SpecClones == InitClones /\ [][NextClones]_vars

(***************************************************************************)
(* Properties.                                                             *)
(***************************************************************************)
\* C1: in one invocation the nodes run in the order of the graph, each at
\* most once, and a node runs only when the checkpoint of its predecessor
\* is committed; a run that ends has run all eleven nodes.
C1_NodesRunInGraphOrder ==
    /\ Len(executed) <= Len(NodeOrder)
    /\ \A i \in 1..Len(executed) : executed[i] = NodeOrder[i]
    /\ \A i \in 2..Len(executed) :
          Len(checkpoints) >= i /\ checkpoints[i].step = NodeOrder[i - 1]
    /\ status = "done" => executed = NodeOrder /\ next = END

C1_Witness == status = "done" /\ Len(executed) = 11

\* C2: when a node raises nothing is committed for it, the committed
\* checkpoints stay as they are, a GET returns the state of the last step
\* that completed, and no node runs afterwards.
C2_FailureKeepsCommittedState ==
    [][/\ status' = "failed" =>
            /\ checkpoints' = checkpoints
            /\ get_analysis_state(checkpoints') = [found |-> TRUE, analysis |-> lastGood']
       /\ status = "failed" => executed' = executed /\ status' = "failed"]_vars

C2_Witness ==
    /\ status = "failed"
    /\ failedNode = "process_code_chunks"
    /\ analyzerCalls = 2
    /\ get_analysis_state(checkpoints).analysis.analyzed_code_chunks = <<>>

ChunkerFailures == {"clone_failed", "llm_failed", "parse_failed"}

C4_ChunkAnalysisAllOrNothing ==
    /\ \A k \in 1..Len(checkpoints) :
          Len(checkpoints[k].state.analyzed_code_chunks)
              \in {0, Len(checkpoints[k].state.ingested_repo_chunks)}
    /\ failedNode = "process_code_chunks" =>
          /\ executed = <<"code_chunker", "process_code_chunks">>
          /\ Channels.analyzed_code_chunks = <<>>
          /\ status = "failed"

C4_Witness ==
    /\ failedNode = "process_code_chunks"
    /\ Len(Channels.ingested_repo_chunks) = 2
    /\ analyzerCalls = 2

\* C5 as stated: a run resumed after the process died with
\* generate_data_model_report pending continues with that node and never
\* invokes the per-chunk analyzer.
C5_ResumeContinuesAfterAnalysis ==
    (restarts > 0 /\ resumedFrom = "generate_data_model_report") =>
        /\ analyzerCalls = 0
        /\ \A i \in 1..Len(executed) : i + 2 <= Len(NodeOrder) /\ executed[i] = NodeOrder[i + 2]

\* the result of node n when nothing fails, as a one-element set (empty
\* when the node cannot return)
Returned(n, state) == {r \in NodeResults(n, state) : ~r.raised}

\* the channel values at the end of an uninterrupted run from node n
RECURSIVE UninterruptedFrom(_, _)
UninterruptedFrom(n, state) ==
    IF n = END \/ Returned(n, state) = {} THEN state
    ELSE UninterruptedFrom(create_code_analysis_graph[n],
                           apply_writes(state, (CHOOSE r \in Returned(n, state) : TRUE).out))

UninterruptedFinal ==
    UninterruptedFrom(create_code_analysis_graph[START],
                      apply_writes(CodeAnalysisState(RepoUrl), CodeAnalysisState(RepoUrl)))

\* C6: a run that ends, whether or not the process died and the agent was
\* run again on the way, ends in the final state of the uninterrupted run;
\* no committed state holds more analysed chunks than ingested chunks.
C6_ResumedRunEqualsUninterrupted ==
    /\ status = "done" => Channels = UninterruptedFinal
    /\ \A k \in 1..Len(checkpoints) :
          Len(checkpoints[k].state.analyzed_code_chunks) <= Len(chunk_codebase(mock.plan))

C6_Witness ==
    /\ status = "done"
    /\ restarts = 1
    /\ crashKind = "before_commit"
    /\ resumedFrom = "generate_data_model_report"
    /\ Len(Channels.analyzed_code_chunks) = 2

NonEmptyFieldsKept(old, new) ==
    /\ old.file_structure # "" => new.file_structure = old.file_structure
    /\ old.languages_used # <<>> => new.languages_used = old.languages_used
    /\ old.ingested_repo_chunks # <<>> => new.ingested_repo_chunks = old.ingested_repo_chunks
    /\ old.analyzed_code_chunks # <<>> => new.analyzed_code_chunks = old.analyzed_code_chunks
    /\ \A t \in TopicSet :
          old.report_sections[t] # NoSection => new.report_sections[t] = old.report_sections[t]
    /\ old.consolidated_report # EmptyText => new.consolidated_report = old.consolidated_report
    /\ old.product_requirements # EmptyText => new.product_requirements = old.product_requirements

\* C7: a field that is non-empty in a committed state has the same value in
\* every later committed state of the thread.
C7_MonotonicFill ==
    \A i, j \in 1..Len(checkpoints) :
        i < j => NonEmptyFieldsKept(checkpoints[i].state, checkpoints[j].state)

C7_Witness ==
    /\ status = "done"
    /\ Len(Channels.analyzed_code_chunks) = 2
    /\ \A t \in TopicSet : Channels.report_sections[t] # NoSection

\* C8: from the checkpoint of process_code_chunks on, the analysed chunks
\* are one per ingested chunk, in the same order and with the same chunk_id.
C8_OneRecordPerIngestedChunk ==
    \A k \in 3..Len(checkpoints) :
        LET st == checkpoints[k].state
        IN /\ Len(st.analyzed_code_chunks) = Len(st.ingested_repo_chunks)
           /\ \A i \in 1..Len(st.analyzed_code_chunks) :
                 st.analyzed_code_chunks[i].chunk_id = st.ingested_repo_chunks[i].chunk_id

C8_Witness ==
    /\ Len(checkpoints) >= 3
    /\ Len(Channels.analyzed_code_chunks) = 2
    /\ mock.responses[2].chunk_id = "X"
    /\ Channels.analyzed_code_chunks[2].chunk_id = "chunk_1"

\* C9 as stated: no two ingested chunks of a committed state have the same
\* chunk_id.
C9_UniqueChunkIds ==
    \A k \in 1..Len(checkpoints) :
        LET chunks == checkpoints[k].state.ingested_repo_chunks
        IN \A i, j \in 1..Len(chunks) : chunks[i].chunk_id = chunks[j].chunk_id => i = j

\* C10: the checkpoint of an aggregator differs from the one before it in
\* the section of its topic only, that of generate_consolidated_report in
\* consolidated_report only, that of generate_product_requirements in
\* product_requirements only.
C10_NodesWriteOnlyTheirOutput ==
    [][Len(checkpoints') = Len(checkpoints) + 1 /\ checkpoints # <<>> =>
        LET n == checkpoints'[Len(checkpoints')].step
            old == Channels
            new == checkpoints'[Len(checkpoints')].state
        IN /\ n \in AggregatorNodes =>
                new = [old EXCEPT !.report_sections[TopicOf(n)] =
                                      new.report_sections[TopicOf(n)]]
           /\ n = "generate_consolidated_report" =>
                new = [old EXCEPT !.consolidated_report = new.consolidated_report]
           /\ n = "generate_product_requirements" =>
                new = [old EXCEPT !.product_requirements = new.product_requirements]]_vars

C10_Witness ==
    /\ status = "done"
    /\ Len(Channels.analyzed_code_chunks) = 2
    /\ Channels.analyzed_code_chunks[1].business_logic # Channels.analyzed_code_chunks[2].business_logic
    /\ Channels.consolidated_report # EmptyText

\* a chunk of the committed state st contributes to topic t
HasContributor(st, t) ==
    \E i \in 1..Len(st.analyzed_code_chunks) : Truthy(st.analyzed_code_chunks[i][t])

\* C11: a populated section of a committed state has a chunk with a non-empty
\* field of its topic or holds the "No ... information found" sentence, and
\* an aggregator has called the LLM only when such a chunk exists.
C11_PopulatedSectionHasSource ==
    /\ \A k \in 1..Len(checkpoints), t \in TopicSet :
          LET st == checkpoints[k].state
          IN st.report_sections[t] # NoSection =>
                \/ HasContributor(st, t)
                \/ \E j \in 1..Len(st.report_sections[t]) :
                       st.report_sections[t][j] = NoInformation(t)[1]
    /\ \A n \in AggregatorNodes :
          n \in llmCalled => HasContributor(Channels, TopicOf(n))

C11_Witness ==
    /\ Len(checkpoints) >= 4
    /\ ~HasContributor(Channels, "data_model")
    /\ Channels.report_sections["data_model"] =
          <<Line(1, "Data Model Report"), EmptyLine,
            Line(0, "No data model information found in the analyzed code chunks.")>>
    /\ "generate_data_model_report" \notin llmCalled
    /\ "generate_interfaces_report" \in llmCalled
    /\ Channels.report_sections["interfaces"] # NoSection

\* the checkpoint of process_code_chunks is committed and no analysed chunk
\* has a topic field set
NoTopicRun ==
    /\ Len(checkpoints) >= 3
    /\ \A t \in TopicSet : ~HasContributor(Channels, t)

\* C12 as stated: a run in which no analysed chunk has a topic field set
\* gets to generate_consolidated_report, and the consolidated report it
\* writes is the header alone.
C12_EmptyRunReportIsHeaderOnly ==
    NoTopicRun =>
        /\ failedNode \notin AggregatorNodes
        /\ Channels.consolidated_report # EmptyText =>
              Channels.consolidated_report = ReportHeader(Channels)

\* the lines of a consolidated report after its header
Body(report) == SubSeq(report, 7, Len(report))

PopulatedTopics(report_sections) ==
    SelectSeq(Topics, LAMBDA t : report_sections[t] # NoSection)

HeadingsOfLevel(text, lvl) == SelectSeq(text, LAMBDA l : l.lvl = lvl)

DeepHeadings(text, lvl) == SelectSeq(text, LAMBDA l : l.lvl >= lvl)

RECURSIVE Flatten(_)
Flatten(seqs) == IF seqs = <<>> THEN <<>> ELSE seqs[1] \o Flatten(Tail(seqs))

\* the level-2 headings of section i numbered i.1 .. i.K as level-3 headings
NumberedSubheadings(section, i) ==
    LET subs == HeadingsOfLevel(section, 2)
    IN [k \in 1..Len(subs) |->
           Line(3, ToString(i) \o "." \o ToString(k) \o ". " \o subs[k].txt)]

\* the level-1 headings of section i numbered i as level-2 headings
NumberedTitles(section, i) ==
    LET titles == HeadingsOfLevel(section, 1)
    IN [k \in 1..Len(titles) |-> Line(2, ToString(i) \o ". " \o titles[k].txt)]

\* the headings of level 3 or deeper one level down, without number
DeepenedHeadings(section) ==
    LET deep == DeepHeadings(section, 3)
    IN [k \in 1..Len(deep) |-> Line(deep[k].lvl + 1, deep[k].txt)]

\* a section with exactly one level-1 heading, placed before its level-2 headings
WellTitled(section) ==
    /\ Len(HeadingsOfLevel(section, 1)) = 1
    /\ \A a, b \in 1..Len(section) :
          section[a].lvl = 1 /\ section[b].lvl = 2 => a < b

\* the numbering of C13 on the committed state st
NumberedOneToN(st) ==
    LET P == PopulatedTopics(st.report_sections)
        body == Body(st.consolidated_report)
        H2 == HeadingsOfLevel(body, 2)
    IN /\ Len(H2) = Len(P)
       /\ \A i \in 1..Len(P) :
             \E j \in 1..Len(st.report_sections[P[i]]) :
                 /\ st.report_sections[P[i]][j].lvl = 1
                 /\ H2[i] = Line(2, ToString(i) \o ". " \o st.report_sections[P[i]][j].txt)
       /\ HeadingsOfLevel(body, 3) =
             Flatten([i \in 1..Len(P) |-> NumberedSubheadings(st.report_sections[P[i]], i)])
       /\ DeepHeadings(body, 4) =
             Flatten([i \in 1..Len(P) |-> DeepenedHeadings(st.report_sections[P[i]])])

\* C13 as stated: for any report sections the consolidated report has
\* level-2 headings numbered 1..N, one per populated section in declaration
\* order, the former level-2 headings of section i numbered i.1..i.K, and
\* the deeper headings one level down without number.
C13_HeadingsNumberedOneToN ==
    \A c \in 1..Len(checkpoints) :
        checkpoints[c].state.consolidated_report # EmptyText =>
            NumberedOneToN(checkpoints[c].state)

\* C13 amended: the level-2 headings of the consolidated report are the
\* level-1 headings of the populated sections, each numbered with the rank
\* i of its section among the populated ones (none for a section without
\* level-1 heading, several with the same number for a section with
\* several), and deeper headings move one level down without number; when
\* every populated section has exactly one level-1 heading placed before
\* its level-2 headings, the numbering is 1..N with i.1..i.K below it.
C13_HeadingsNumberedPerTitle ==
    \A c \in 1..Len(checkpoints) :
        LET st == checkpoints[c].state
            P == PopulatedTopics(st.report_sections)
            body == Body(st.consolidated_report)
        IN st.consolidated_report # EmptyText =>
             /\ HeadingsOfLevel(body, 2) =
                   Flatten([i \in 1..Len(P) |-> NumberedTitles(st.report_sections[P[i]], i)])
             /\ DeepHeadings(body, 4) =
                   Flatten([i \in 1..Len(P) |-> DeepenedHeadings(st.report_sections[P[i]])])
             /\ (\A i \in 1..Len(P) : WellTitled(st.report_sections[P[i]])) =>
                   NumberedOneToN(st)

C13_Witness ==
    /\ Len(checkpoints) >= 2
    /\ Channels.report_sections["data_model"] = NoSection
    /\ WellTitled(Channels.report_sections["interfaces"])
    /\ Channels.report_sections["business_logic"] = NoSection
    /\ WellTitled(Channels.report_sections["dependencies"])
    /\ \A t \in TopicSet :
          Channels.report_sections[t] # NoSection => WellTitled(Channels.report_sections[t])
    /\ HeadingsOfLevel(Body(Channels.consolidated_report), 3)[4] = Line(3, "2.2. B")
    /\ Line(5, "deep") \in {Channels.consolidated_report[j] :
                                j \in 1..Len(Channels.consolidated_report)}

\* C14: a non-empty consolidated report begins with the header naming
\* repo_url and the comma-joined languages_used, and goes on with exactly
\* the populated sections in the declaration order of the topics; with no
\* populated section it is the header alone.
C14_HeaderThenPopulatedSections ==
    \A c \in 1..Len(checkpoints) :
        LET st == checkpoints[c].state
            P == PopulatedTopics(st.report_sections)
            report == st.consolidated_report
            languages == IF st.languages_used = <<>> THEN ""
                         ELSE IF st.languages_used = <<"python", "javascript">>
                         THEN "python, javascript"
                         ELSE "other"
        IN report # EmptyText =>
             /\ Len(report) >= 7
             /\ SubSeq(report, 1, 6) =
                   <<Line(1, "Code Analysis Report"), EmptyLine,
                     Line(2, "Repository Information"),
                     Line(0, "- **Repository URL:** " \o st.repo_url),
                     Line(0, "- **Languages Used:** " \o languages),
                     EmptyLine>>
             /\ Body(report) =
                   JoinParts([i \in 1..Len(P) |->
                                 transform_report_section(st.report_sections[P[i]], i)])
             /\ P = <<>> => Len(report) = 7 /\ report[7] = EmptyLine

C14_Witness ==
    /\ Len(checkpoints) >= 2
    /\ PopulatedTopics(Channels.report_sections) = <<"interfaces", "infrastructure">>
    /\ Channels.consolidated_report # EmptyText
    /\ Channels.consolidated_report[5] = Line(0, "- **Languages Used:** python, javascript")
    /\ Len(HeadingsOfLevel(Body(Channels.consolidated_report), 2)) = 2

\* C15 as stated: once the timeout has expired nothing of the thread works
\* any more, the work handed to the thread pool included, the committed
\* checkpoints stay as they are, and the agent has returned without raising.
C15_TimeoutStopsAllWork ==
    [][status = "timed_out" =>
          /\ status' = "timed_out"
          /\ checkpoints' = checkpoints
          /\ executed' = executed
          /\ llmCalled' = llmCalled
          /\ worker' = worker]_vars

\* the function fn has been called and has returned or raised
Called(fn) == call.fn = fn /\ result # NoCall

\* C16 as stated: an LLM call whose attempt fails with a client error is
\* attempted once and ends in failure; another attempt follows only a
\* transport failure or a provider 5xx.
C16_ClientErrorIsNotRetried ==
    Called("get_chunks_from_bedrock") =>
        /\ call.outcomes[1] = "client_4xx" => result.raised /\ result.attempts = 1
        /\ \A k \in 1..(result.attempts - 1) :
              call.outcomes[k] \in {"transport_failure", "provider_5xx"}

\* C17 as stated: a failing clone of a remote repository is attempted up
\* to 3 times with waits of 1 s and 2 s and fails only when the third
\* attempt has failed.
C17_CloneIsRetried ==
    (Called("clone_repository") /\ call.remote) =>
        /\ result.raised <=> \A k \in 1..3 : call.outcomes[k] # "ok"
        /\ result.raised => result.attempts = 3 /\ result.sleeps = <<1, 2>>

\* C18 as stated: when the prompt without comments counts more tokens than
\* the hard window, analyze_repository raises and the planning call is not
\* issued, whatever filter_comments_above_tokens is.
C18_OversizedPromptIsRejected ==
    (Called("analyze_repository")
        /\ SystemPromptTokens + call.stripped + 200 > HardWindow) =>
        result.raised /\ ~result.llm_called

\* C19 as stated: every path in the files of a chunk denotes a regular file
\* under the repository root, whatever patterns the LLM returns.
C19_FilesLieUnderRepoRoot ==
    Called("process_chunk") =>
        \A f \in result.files :
            /\ f.phys \in ensure_local_repository(call.remote, call.unremovable).files
            /\ IsUnder(f.phys, RepoPath)

\* C20 as stated: no path the exclusion predicate excludes is among the
\* files of a chunk, for a clone and for a copied local path, also when a
\* removal fails during cleaning.
C20_NoExcludedFileInChunk ==
    Called("process_chunk") =>
        \A f \in result.files : ~should_exclude(f.phys)

\* C21: after code_chunker has made the chunks, the union of the files of
\* all chunks equals the set of the files of the acquired repository that
\* are not excluded
C21_ChunksCoverRetainedFiles ==
    Called("chunk_codebase") =>
        UNION {{f.phys : f \in result.chunks[i]} : i \in 1..Len(result.chunks)}
            = RetainedFiles(ensure_local_repository(call.remote, {}))

\* C22: two analyses that run concurrently in one process do not interfere:
\* every git command of a thread operates on the directory of that thread,
\* under every interleaving of the two clones
C22_GitRunsInOwnDirectory ==
    call = CloneThreads =>
        \A t \in Threads : \A i \in 1..Len(result.git[t]) :
            result.git[t][i].dir = TempDir(t)

\* C23: when the code_chunker node finishes normally, the temporary
\* directory created for the repository copy has been removed
C23_TempDirRemovedOnNormalExit ==
    (Called("code_chunker") /\ result.created /\ ~result.raised) => ~result.exists

\* the waits of exponential backoff before the attempts 2..k
Backoff(k) == [i \in 1..(k - 1) |-> 2^(i - 1)]

\* C24: with max_retries = 3 the operation is invoked at most 3 times; a
\* first success on attempt k is returned after exactly k invocations, with
\* waits of 1s and 2s after the first and second failure and none after the
\* last; after 3 failures RuntimeError is raised from the last exception; a
\* response that does not parse raises outside the loop, with no further call
C24_RetryLoopIsBounded ==
    Called("get_chunks_from_bedrock") =>
        LET successes == {k \in 1..3 : call.outcomes[k] = "ok"}
        IN /\ result.attempts <= 3
           /\ successes # {} =>
                 LET k == CHOOSE j \in successes : \A i \in successes : j <= i
                 IN /\ result.attempts = k
                    /\ result.sleeps = Backoff(k)
                    /\ result.raised = ~call.parses
                    /\ ~call.parses => result.cause = "parse_error"
           /\ successes = {} =>
                 /\ result.raised
                 /\ result.attempts = 3
                 /\ result.sleeps = <<1, 2>>
                 /\ result.cause = call.outcomes[3]

C24_Witness ==
    /\ Called("get_chunks_from_bedrock")
    /\ call.outcomes = <<"transport_failure", "provider_5xx", "ok">>
    /\ ~call.parses
    /\ result.attempts = 3
    /\ result.sleeps = <<1, 2>>
    /\ result.raised

\* the listed remote branches whose name does not contain "HEAD"
NonHeadLines(lines) == {i \in 1..Len(lines) : ~ContainsHEAD(lines[i])}

\* the branch the selection order main, master, first non-HEAD branch gives
SelectedBranch(git) ==
    IF git.main_ok THEN "main"
    ELSE IF git.master_ok THEN "master"
    ELSE IF git.list_ok /\ NonHeadLines(git.lines) # {}
    THEN LocalBranch(git.lines[CHOOSE i \in NonHeadLines(git.lines) :
                                  \A j \in NonHeadLines(git.lines) : i <= j])
    ELSE NULL

CheckoutsOfNewBranch(commands) ==
    {i \in 1..Len(commands) : commands[i].cmd = "checkout -b"}

\* C25: after the fetch the branch checked out is main if origin/main can
\* be checked out, otherwise master if origin/master can, otherwise the
\* first listed remote branch that is not HEAD; when there is none the
\* clone fails and no "checkout -b" is run
C25_BranchSelectionOrder ==
    Called("_checkout_branch") =>
        /\ result.branch = SelectedBranch(call.git)
        /\ IF SelectedBranch(call.git) = NULL
           THEN result.raised /\ CheckoutsOfNewBranch(result.commands) = {}
           ELSE /\ CheckoutsOfNewBranch(result.commands) = {Len(result.commands)}
                /\ result.commands[Len(result.commands)].arg = SelectedBranch(call.git)
                /\ result.raised = ~call.git.create_ok

C25_Witness ==
    /\ Called("_checkout_branch")
    /\ ~call.git.main_ok /\ ~call.git.master_ok /\ call.git.list_ok /\ call.git.create_ok
    /\ call.git.lines = <<"  origin/HEAD -> origin/dev", "  origin/feature/x">>
    /\ result.branch = "feature/x"
    /\ ~result.raised

Range(seq) == {seq[i] : i \in 1..Len(seq)}

RECURSIVE SumOfEstimates(_, _, _, _, _)
SumOfEstimates(code_structure, paths, lo, hi, filter_comments) ==
    IF lo > hi THEN 0
    ELSE IF lo = hi THEN file_tokens(code_structure[paths[lo]], filter_comments)
    ELSE LET mid == (lo + hi) \div 2
         IN SumOfEstimates(code_structure, paths, lo, mid, filter_comments)
              + SumOfEstimates(code_structure, paths, mid + 1, hi, filter_comments)

\* C26: create_simplified_structure returns a prefix of the sorted file
\* list: at most 300 files, estimates summing to at most 180,000, and no
\* file after the first one that was rejected
C26_SimplifiedStructureIsBoundedPrefix ==
    Called("create_simplified_structure") =>
        LET paths == DOMAIN call.code_structure
            included == result.included
            last == IF included = <<>> THEN 0 ELSE included[Len(included)]
        IN /\ Len(included) <= 300
           /\ Len(included) = result.file_count
           /\ \A i \in 1..(Len(included) - 1) : included[i] < included[i + 1]
           /\ Range(included) = {j \in paths : j <= last}
           /\ SumOfEstimates(call.code_structure, included, 1, Len(included),
                             call.filter_comments) <= 180000

\* a file is rejected for the budget although a later file would fit
C26_Witness ==
    /\ Called("create_simplified_structure")
    /\ Len(result.included) < 300
    /\ \E k \in DOMAIN call.code_structure :
          /\ k \notin Range(result.included)
          /\ \E j \in DOMAIN call.code_structure :
                /\ j > k
                /\ result.estimated_tokens
                      + file_tokens(call.code_structure[j], call.filter_comments) < 180000

\* the cap of 300 files is what stops the loop
C26_WitnessFileCap ==
    /\ Called("create_simplified_structure")
    /\ Len(result.included) = 300
    /\ Cardinality(DOMAIN call.code_structure) > 300

\* C27: parse_code_structure never parses more files than
\* max_files_to_parse: the returned code structure has at most that many
\* entries, and the walk stops as soon as the cap is reached
C27_ParsedFilesWithinCap ==
    Called("parse_code_structure") =>
        /\ Cardinality(result.code_structure) <= call.max_files_to_parse
        /\ \A i \in 1..result.processed :
              Cardinality({j \in 1..(i - 1) : call.files[j].parses})
                  < call.max_files_to_parse

\* the nodes that run after process_code_chunks and return the full state
NodesAfterAnalysis ==
    AggregatorNodes \cup {"generate_consolidated_report", "generate_product_requirements"}

\* lists a node may submit to the analyzed_code_chunks channel
SubmittedLists == UNION {[1..n -> AnalysisResponses] : n \in 0..MaxChunks}

\* C28: the reducer of analyzed_code_chunks leaves the stored list
\* unchanged when the same list is submitted again, so every node after
\* process_code_chunks keeps the list as it is; whatever is submitted, the
\* stored records stay, in their order, at the front of the list
C28_ReducerKeepsStoredChunks ==
    checkpoints # <<>> =>
        LET stored == Channels.analyzed_code_chunks
        IN /\ unique_code_chunks_reducer(stored, stored) = stored
           /\ \A new \in SubmittedLists :
                 SubSeq(unique_code_chunks_reducer(stored, new), 1, Len(stored)) = stored
           /\ \A i \in 2..Len(checkpoints) :
                 checkpoints[i].step \in NodesAfterAnalysis =>
                     checkpoints[i].state.analyzed_code_chunks
                         = checkpoints[i - 1].state.analyzed_code_chunks

C28_Witness ==
    /\ checkpoints # <<>>
    /\ checkpoints[Len(checkpoints)].step = "generate_product_requirements"
    /\ Len(Channels.analyzed_code_chunks) = 2
    /\ Channels.analyzed_code_chunks[1].data_model = Channels.analyzed_code_chunks[2].data_model
    /\ Channels.analyzed_code_chunks[1].business_logic
          = Channels.analyzed_code_chunks[2].business_logic

\* thread t has left clone_repository and no other clone has begun
ClonedAlone(t) ==
    /\ call = CloneThreads
    /\ result.pc[t] \in {"done", "failed"}
    /\ \A u \in Threads \ {t} : result.pc[u] = "which"

\* C29: on every exit path of clone_repository (success, non-zero exit of a
\* git command, timeout, no git executable) the working directory of the
\* process is what it was before the call, and after a failed clone the
\* target directory no longer exists
C29_CloneRestoresWorkingDirectory ==
    \A t \in Threads :
        ClonedAlone(t) =>
            /\ result.cwd = AppDir
            /\ result.pc[t] = "failed" => TempDir(t) \notin result.exists

\* C30: whether a file is excluded depends only on its path relative to
\* the repository root: the same repository placed under another parent
\* directory keeps the same set of relative paths after copy or cleaning
C30_ExclusionIgnoresParentPath ==
    Called("retained_relative_paths") =>
        \A other \in RepoRoots :
            retained_relative_paths(other, call.remote) = result.paths

====
